---- MODULE Spec2Model ----
(***************************************************************************)
(* Model of the pull-request review agent: pr_agent.py (URL parsing and    *)
(* the orchestrating main), git_client.py (the provider clients and their  *)
(* factory), review_engine.py (the analysis step) and config.py (the       *)
(* credential lookup).                                                     *)
(*                                                                         *)
(* Python strings that the code takes apart (URLs, host names, the id      *)
(* segment, file paths, the operator's answer) are sequences of tokens, so *)
(* that lower(), strip(), split(), "in", endswith() and int() are computed *)
(* the way the code computes them.                                         *)
(***************************************************************************)
EXTENDS Integers, Sequences, FiniteSets, TLC

VARIABLES
    argv,            \* sys.argv[1:]: the command-line arguments after the script name
    config,          \* config.GIT_API_TOKENS: server name -> token
    pc,              \* position of main (or of the client harness)
    status,          \* why the run stopped: the spec's exit status name
    exit_code,       \* process exit code; -1 while the process runs
    parsed_info,     \* <<>> or <<tuple returned by parse_pr_url>>
    git_client,      \* <<>> or <<client object built by get_client>>
    pr_details,      \* <<>> or <<dict returned by fetch_pr_details>>
    review_feedback, \* text returned by analyze_changes (<<>> before it runs)
    confirm,         \* <<>> or <<lower-cased answer read by input()>>
    net,             \* outbound HTTP exchanges, in order: request and response
    stdout,          \* what was printed, in order
    calls,           \* collaborator calls made so far, in order
    inline_args      \* <<>> or <<arguments of the post_inline_comment call>>

vars == <<argv, config, pc, status, exit_code, parsed_info, git_client,
          pr_details, review_feedback, confirm, net, stdout, calls, inline_args>>

(***************************************************************************)
(* Bounds of the model.                                                    *)
(***************************************************************************)
MaxFiles == 2       \* longest changed-files payload the hosting API returns
MaxLine == 3        \* largest line number passed to post_inline_comment

(***************************************************************************)
(* Python string operations, on token sequences.                           *)
(***************************************************************************)
LowerTok(c) ==
    CASE c = "Y" -> "y" [] c = "E" -> "e" [] c = "S" -> "s"
      [] c = "N" -> "n" [] c = "O" -> "o"
      [] c = "GitHub" -> "github" [] c = "GitLab" -> "gitlab" [] c = "COM" -> "com"
      [] OTHER -> c

lower(s) == [i \in 1..Len(s) |-> LowerTok(s[i])]

\* Python's  sub in s  for strings
Contains(sub, s) ==
    \E i \in 0..(Len(s) - Len(sub)) : SubSeq(s, i + 1, i + Len(sub)) = sub

RECURSIVE lstrip(_, _)
lstrip(s, ch) == IF s # <<>> /\ Head(s) = ch THEN lstrip(Tail(s), ch) ELSE s

RECURSIVE rstrip(_, _)
rstrip(s, ch) ==
    IF s # <<>> /\ s[Len(s)] = ch THEN rstrip(SubSeq(s, 1, Len(s) - 1), ch) ELSE s

strip(s, ch) == rstrip(lstrip(s, ch), ch)

RECURSIVE split(_, _)
split(s, sep) ==
    IF \E i \in 1..Len(s) : s[i] = sep
    THEN LET i == CHOOSE j \in 1..Len(s) :
                      s[j] = sep /\ \A k \in 1..(j - 1) : s[k] # sep
         IN  <<SubSeq(s, 1, i - 1)>> \o split(SubSeq(s, i + 1, Len(s)), sep)
    ELSE <<s>>

endswith(s, suffix) ==
    Len(s) >= Len(suffix) /\ SubSeq(s, Len(s) - Len(suffix) + 1, Len(s)) = suffix

Digits == <<"0", "1", "2", "3", "4", "5", "6", "7", "8", "9">>

IsDigit(c) == \E d \in 1..Len(Digits) : Digits[d] = c

DigitVal(c) == (CHOOSE d \in 1..Len(Digits) : Digits[d] = c) - 1

IntBody(s) == IF s # <<>> /\ Head(s) \in {"-", "+"} THEN Tail(s) ELSE s

\* int(s) raises ValueError unless s is an optional sign and at least one digit
IntRaises(s) == IntBody(s) = <<>> \/ \E i \in 1..Len(IntBody(s)) : ~IsDigit(IntBody(s)[i])

RECURSIVE IntMagnitude(_)
IntMagnitude(ds) ==
    IF ds = <<>> THEN 0
    ELSE 10 * IntMagnitude(SubSeq(ds, 1, Len(ds) - 1)) + DigitVal(ds[Len(ds)])

int(s) == IF s # <<>> /\ Head(s) = "-" THEN 0 - IntMagnitude(IntBody(s))
          ELSE IntMagnitude(IntBody(s))

(***************************************************************************)
(* urllib.parse.urlparse, for URLs without query or fragment: the network  *)
(* location is what follows "scheme://" up to the next "/", the path is    *)
(* the rest; without "//" there is no network location.                    *)
(***************************************************************************)
urlparse(url) ==
    IF Len(url) >= 4 /\ url[2] = ":" /\ url[3] = "/" /\ url[4] = "/"
    THEN LET rest == SubSeq(url, 5, Len(url))
             cut  == IF \E i \in 1..Len(rest) : rest[i] = "/"
                     THEN CHOOSE j \in 1..Len(rest) :
                              rest[j] = "/" /\ \A k \in 1..(j - 1) : rest[k] # "/"
                     ELSE Len(rest) + 1
         IN  [netloc |-> SubSeq(rest, 1, cut - 1), path |-> SubSeq(rest, cut, Len(rest))]
    ELSE [netloc |-> <<>>, path |-> url]

(***************************************************************************)
(* pr_agent.parse_pr_url.  kind is "tuple" (the identity), "None" (the     *)
(* documented failure value) or "ValueError" (int() raised).               *)
(***************************************************************************)
ParseResult(kind, server, owner, repo, pr_number) ==
    [kind |-> kind, server |-> server, owner |-> owner, repo |-> repo,
     pr_number |-> pr_number]

ParseBranch(server, path_parts) ==
    IF IntRaises(path_parts[4])
    THEN ParseResult("ValueError", "", <<>>, <<>>, 0)
    ELSE ParseResult("tuple", server, path_parts[1], path_parts[2], int(path_parts[4]))

parse_pr_url(url) ==
    LET parsed_url == urlparse(url)
        domain     == lower(parsed_url.netloc)
        path_parts == split(strip(parsed_url.path, "/"), "/")
    IN  IF Contains(<<"github", ".", "com">>, domain) /\ Len(path_parts) >= 4
           /\ path_parts[3] = <<"pull">>
        THEN ParseBranch("github", path_parts)
        ELSE IF Contains(<<"gitlab", ".", "com">>, domain) /\ Len(path_parts) >= 4
                /\ path_parts[3] = <<"merge_requests">>
        THEN ParseBranch("gitlab", path_parts)
        ELSE ParseResult("None", "", <<>>, <<>>, 0)

(***************************************************************************)
(* config.GIT_API_TOKENS and its lookup, dict.get.                         *)
(***************************************************************************)
PLACEHOLDER == "YOUR_GITHUB_TOKEN_HERE"

DictGet(d, k) == IF k \in DOMAIN d THEN <<d[k]>> ELSE <<>>

TokenRejectedNoSentinel(token) == token = <<>> \/ token[1] = ""

\* main's guard:  not token or token == "YOUR_GITHUB_TOKEN_HERE"
TokenRejected(token) == token = <<>> \/ token[1] = "" \/ token[1] = PLACEHOLDER

(***************************************************************************)
(* git_client.get_client: the factory.                                     *)
(***************************************************************************)
Client(class, token) == [class |-> class, token |-> token]

get_client(server_type, token) ==
    IF LowerTok(server_type) = "github" THEN Client("GitHubClient", token)
    ELSE IF LowerTok(server_type) = "gitlab" THEN Client("GitlabClient", token)
    ELSE IF LowerTok(server_type) = "bitbucket" THEN Client("BitbucketClient", token)
    ELSE Client("ValueError", token)

(***************************************************************************)
(* HTTP exchanges.  A response is a network error, or a status and a body; *)
(* a body is not JSON ("invalid"), a JSON object or a JSON array.          *)
(***************************************************************************)
Json(type, obj, items) == [type |-> type, obj |-> obj, items |-> items]

Response(err, status_code, body) == [err |-> err, status_code |-> status_code, body |-> body]

Exchange(method, endpoint, body, response) ==
    [method |-> method, endpoint |-> endpoint, body |-> body, response |-> response]

\* requests.Response.raise_for_status: HTTPError for 4xx and 5xx only
RaisesForStatus(response) == response.status_code >= 400 /\ response.status_code < 600

Text(kind, arg, line) == [kind |-> kind, arg |-> arg, line |-> line]

Printed(msg, text) == [msg |-> msg, text |-> text]

(***************************************************************************)
(* GitHubClient.fetch_pr_details.                                          *)
(***************************************************************************)
\* file_changes[k] = v on an insertion-ordered dict
DictSet(d, k, v) ==
    IF \E i \in 1..Len(d) : d[i].key = k
    THEN [i \in 1..Len(d) |-> IF d[i].key = k THEN [key |-> k, value |-> v] ELSE d[i]]
    ELSE Append(d, [key |-> k, value |-> v])

RECURSIVE ExtractEveryFile(_, _)
ExtractEveryFile(files_data, file_changes) ==
    IF files_data = <<>> THEN file_changes
    ELSE LET file == Head(files_data)
         IN  ExtractEveryFile(Tail(files_data),
                 DictSet(file_changes, file.filename,
                         IF "patch" \in DOMAIN file THEN file.patch ELSE <<>>))

\* the loop over files_data (a JSON array of objects)
RECURSIVE ExtractFileChanges(_, _)
ExtractFileChanges(files_data, file_changes) ==
    IF files_data = <<>> THEN file_changes
    ELSE LET file == Head(files_data)
         IN  IF "patch" \in DOMAIN file
             THEN ExtractFileChanges(Tail(files_data),
                                     DictSet(file_changes, file.filename, file.patch))
             ELSE ExtractFileChanges(Tail(files_data), file_changes)

\* file['filename'] raises KeyError when an entry has a patch and no filename
ExtractRaises(files_data) ==
    \E i \in 1..Len(files_data) :
        "patch" \in DOMAIN files_data[i] /\ "filename" \notin DOMAIN files_data[i]

\* Iterating a JSON object yields its keys; 'patch' in key is a substring
\* test, and key['filename'] then raises TypeError.
KeyContainsPatch(k) == k \in {"patch", "patch_url"}

ObjectLoopRaises(obj) == \E k \in DOMAIN obj : KeyContainsPatch(k)

FetchResult(kind, title, file_changes) ==
    [kind |-> kind, title |-> title, file_changes |-> file_changes]

FetchOutcome(result, exchanges, printed) ==
    [result |-> result, exchanges |-> exchanges, printed |-> printed]

FetchNone(exchanges) ==
    FetchOutcome(FetchResult("None", "", <<>>), exchanges,
                 <<Printed("Error fetching GitHub PR", <<>>)>>)

FetchRaise(exchanges) == FetchOutcome(FetchResult("raise", "", <<>>), exchanges, <<>>)

\* lines 61-73: the loop over the files payload and the returned dict
GitHubFetchBuild(pr_data, files_data, exchanges) ==
    IF files_data.type = "object" /\ ObjectLoopRaises(files_data.obj)
    THEN FetchRaise(exchanges)
    ELSE IF files_data.type = "array" /\ ExtractRaises(files_data.items)
    THEN FetchRaise(exchanges)
    ELSE IF pr_data.type # "object"
    THEN FetchRaise(exchanges) \* pr_data.get on a list: AttributeError
    ELSE FetchOutcome(
             FetchResult("dict",
                         IF "title" \in DOMAIN pr_data.obj THEN pr_data.obj.title ELSE "None",
                         IF files_data.type = "array"
                         THEN ExtractFileChanges(files_data.items, <<>>)
                         ELSE <<>>),
             exchanges, <<>>)

\* response.json() on a body that is not JSON: requests >= 2.27 raises
\* requests.exceptions.JSONDecodeError (a RequestException, caught), older
\* versions raise a plain ValueError (not caught).  json_caught is that choice.
GitHubClient_fetch_pr_details(pr_response, files_response, json_caught) ==
    LET ex1 == <<Exchange("GET", "pulls", <<>>, pr_response)>>
        ex2 == Append(ex1, Exchange("GET", "pulls/files", <<>>, files_response))
    IN  IF pr_response.err \/ RaisesForStatus(pr_response) THEN FetchNone(ex1)
        ELSE IF pr_response.body.type = "invalid"
        THEN (IF json_caught THEN FetchNone(ex1) ELSE FetchRaise(ex1))
        ELSE IF files_response.err \/ RaisesForStatus(files_response) THEN FetchNone(ex2)
        ELSE IF files_response.body.type = "invalid"
        THEN (IF json_caught THEN FetchNone(ex2) ELSE FetchRaise(ex2))
        ELSE GitHubFetchBuild(pr_response.body, files_response.body, ex2)

(***************************************************************************)
(* The placeholder clients' fetch_pr_details: fixed dummy data, no request.*)
(***************************************************************************)
GitlabClient_fetch_pr_details ==
    FetchOutcome(
        FetchResult("dict", "Dummy GitLab PR",
                    <<[key |-> <<"dummy", ".py">>, value |-> <<"def placeholder">>]>>),
        <<>>, <<Printed("GitLab client not implemented. Returning dummy data.", <<>>)>>)

(***************************************************************************)
(* post_review_comment and post_inline_comment of the three clients.       *)
(***************************************************************************)
PostOutcome(raised, exchanges, printed, post_calls) ==
    [raised |-> raised, exchanges |-> exchanges, printed |-> printed,
     post_calls |-> post_calls]

PostCall(comment) == [op |-> "post_review_comment", comment |-> comment]

GitHubClient_post_review_comment(comment, response) ==
    LET ex == <<Exchange("POST", "issues/comments", comment, response)>>
    IN  IF response.err
        THEN PostOutcome(TRUE, ex, <<>>, <<PostCall(comment)>>)
        ELSE IF response.status_code = 201
        THEN PostOutcome(FALSE, ex,
                 <<Printed("Successfully posted general review comment on GitHub.", <<>>)>>,
                 <<PostCall(comment)>>)
        ELSE PostOutcome(FALSE, ex,
                 <<Printed("Failed to post general comment", <<>>)>>,
                 <<PostCall(comment)>>)

GitlabClient_post_review_comment(comment) ==
    PostOutcome(FALSE, <<>>,
        <<Printed("GitLab client not implemented. Dummy comment", comment)>>,
        <<PostCall(comment)>>)

InlineNote == "Note: Inline commenting is not fully implemented. Posting as a general comment instead."

GitHubClient_post_inline_comment(file_path, line_number, comment, response) ==
    LET inner == GitHubClient_post_review_comment(
                     <<Text("Review comment on file, line", file_path, line_number)>>
                         \o comment,
                     response)
    IN  PostOutcome(inner.raised, inner.exchanges,
                    <<Printed(InlineNote, <<>>)>> \o inner.printed, inner.post_calls)

GitlabClient_post_inline_comment(file_path, line_number, comment) ==
    PostOutcome(FALSE, <<>>,
        <<Printed("GitLab client not implemented. Dummy inline comment", comment)>>, <<>>)

BitbucketClient_post_inline_comment(file_path, line_number, comment) ==
    PostOutcome(FALSE, <<>>,
        <<Printed("Bitbucket client not implemented. Dummy inline comment", comment)>>, <<>>)

(***************************************************************************)
(* review_engine.ReviewEngine.analyze_changes.                             *)
(***************************************************************************)
Bullet(topic) == Text("bullet", <<topic>>, 0)

FileReview(file_path) ==
    <<Text("#### Review for", file_path, 0)>>
    \o (IF endswith(file_path, <<".py">>)
        THEN <<Bullet("Potential Bug: type hints"), Bullet("Code Style: PEP 8"),
               Bullet("Performance: loops")>>
        ELSE IF endswith(file_path, <<".js">>) \/ endswith(file_path, <<".ts">>)
        THEN <<Bullet("Potential Bug: async/await"), Bullet("Code Style: formatting"),
               Bullet("Security: XSS")>>
        ELSE <<Bullet("General Feedback")>>)
    \o <<Text("newline", <<>>, 0)>>

RECURSIVE ReviewSections(_)
ReviewSections(file_changes) ==
    IF file_changes = <<>> THEN <<>>
    ELSE FileReview(Head(file_changes).key) \o ReviewSections(Tail(file_changes))

analyze_changes_sections_only(file_changes) == ReviewSections(file_changes)

analyze_changes(file_changes) ==
    <<Text("### Automated PR Review Summary", <<>>, 0)>>
    \o ReviewSections(file_changes)
    \o <<Text("This is an automated review.", <<>>, 0)>>

(***************************************************************************)
(* The inputs of a run: the command line, the configured tokens, the       *)
(* hosting API's responses and the operator's answer.                      *)
(***************************************************************************)
Schemes == {<<"https", ":", "/", "/">>, <<>>}

Hosts == {<<"github", ".", "com">>, <<"www", ".", "GitHub", ".", "COM">>,
          <<"gitlab", ".", "com">>, <<"bitbucket", ".", "org">>}

PathKinds == {"pull", "merge_requests", "pull-requests"}

IdSegments == {<<"1">>, <<"4", "2">>, <<"0">>, <<"-", "5">>, <<"a", "b", "c">>, <<"7", "a">>}

Trailers == {<<>>, <<"/">>, <<"/", "files">>}

Urls ==
    {sch \o h \o <<"/", "octocat", "/", "Spoon-Knife", "/", k, "/">> \o id \o t :
        sch \in Schemes, h \in Hosts, k \in PathKinds, id \in IdSegments, t \in Trailers}
    \cup {sch \o h \o <<"/", "octocat", "/", "Spoon-Knife">> : sch \in Schemes, h \in Hosts}

Configs == {<<>>,
            [github |-> "ghp_token"],
            [github |-> ""],
            [github |-> PLACEHOLDER],
            [gitlab |-> PLACEHOLDER],
            [github |-> "ghp_token", gitlab |-> "glpat_token"]}

FilePaths == {<<"a", ".py">>, <<"b", ".bin">>, <<"c", ".ts">>}

FileEntries == {[filename |-> <<"a", ".py">>, patch |-> <<"@@ -1 +1 @@">>],
                [filename |-> <<"a", ".py">>, patch |-> <<"@@ -2 +2 @@">>],
                [filename |-> <<"b", ".bin">>],
                [filename |-> <<"c", ".ts">>, patch |-> <<"@@ -3 +3 @@">>],
                [filename |-> <<"c", ".ts">>],
                [patch |-> <<"@@ -4 +4 @@">>]}

RECURSIVE SeqsUpTo(_, _)
SeqsUpTo(S, n) ==
    IF n = 0 THEN {<<>>}
    ELSE LET shorter == SeqsUpTo(S, n - 1)
         IN  shorter \cup {Append(q, x) : q \in shorter, x \in S}

FilesPayloads == SeqsUpTo(FileEntries, MaxFiles)

NotJson == Json("invalid", <<>>, <<>>)

ErrorObject == Json("object", [message |-> "Not Found"], <<>>)

NetworkError == Response(TRUE, 0, NotJson)

PrResponses ==
    {NetworkError,
     Response(FALSE, 200, Json("object", [title |-> "Fix bug", body |-> "b", html_url |-> "u"], <<>>)),
     Response(FALSE, 200, Json("object", [body |-> "b"], <<>>)),
     Response(FALSE, 200, Json("array", <<>>, <<>>)),
     Response(FALSE, 200, NotJson),
     Response(FALSE, 304, Json("object", [title |-> "Fix bug", body |-> "b", html_url |-> "u"], <<>>)),
     Response(FALSE, 404, ErrorObject),
     Response(FALSE, 500, NotJson)}

FilesResponses ==
    {NetworkError,
     Response(FALSE, 200, NotJson),
     Response(FALSE, 200, ErrorObject),
     Response(FALSE, 200, Json("object", [filename |-> "a.py", patch |-> "@@"], <<>>)),
     Response(FALSE, 304, Json("array", <<>>, <<>>)),
     Response(FALSE, 404, ErrorObject),
     Response(FALSE, 500, NotJson)}
    \cup {Response(FALSE, 200, Json("array", <<>>, p)) : p \in FilesPayloads}

PostResponses ==
    {NetworkError,
     Response(FALSE, 201, Json("object", [id |-> "1"], <<>>)),
     Response(FALSE, 200, Json("object", [id |-> "1"], <<>>)),
     Response(FALSE, 403, ErrorObject),
     Response(FALSE, 500, NotJson)}

\* what the operator types at the prompt
Answers == {<<"y", "e", "s">>, <<"Y", "E", "S">>, <<"Y", "e", "s">>, <<"n", "o">>,
            <<>>, <<"y">>, <<" ", "y", "e", "s">>}

InlineComments == {<<Text("text", <<"nit">>, 0)>>, <<>>}

(***************************************************************************)
(* pr_agent.main, one action per numbered step of the function.            *)
(***************************************************************************)
Call(op, comment) == [op |-> op, comment |-> comment]

Traceback == Printed("Traceback (most recent call last)", <<>>)

\* sys.exit(code), or the interpreter ending on an uncaught exception
Stop(st, code, printed) ==
    /\ pc' = "Failed"
    /\ status' = st
    /\ exit_code' = code
    /\ stdout' = stdout \o printed

Init ==
    /\ argv \in {<<>>} \cup {<<u>> : u \in Urls}
    /\ config \in Configs
    /\ pc = "Idle"
    /\ status = "Running"
    /\ exit_code = -1
    /\ parsed_info = <<>>
    /\ git_client = <<>>
    /\ pr_details = <<>>
    /\ review_feedback = <<>>
    /\ confirm = <<>>
    /\ net = <<>>
    /\ stdout = <<>>
    /\ calls = <<>>
    /\ inline_args = <<>>

\* lines 54-67: argument check and "1. Parse the URL"
ParseUrl ==
    /\ pc = "Idle"
    /\ IF Len(argv) < 1
       THEN /\ Stop("MissingArgument", 1, <<Printed("Usage: python pr_agent.py <pull_request_url>", <<>>)>>)
            /\ UNCHANGED parsed_info
       ELSE LET info == parse_pr_url(argv[1])
            IN  IF info.kind = "None"
                THEN /\ Stop("InvalidInput", 1, <<Printed("Unsupported or invalid URL", <<>>)>>)
                     /\ UNCHANGED parsed_info
                ELSE IF info.kind = "ValueError"
                THEN /\ Stop("UncaughtException", 1, <<Traceback>>)
                     /\ UNCHANGED parsed_info
                ELSE /\ parsed_info' = <<info>>
                     /\ pc' = "Resolved"
                     /\ stdout' = Append(stdout, Printed("Reviewing PR", <<>>))
                     /\ UNCHANGED <<status, exit_code>>
    /\ UNCHANGED <<argv, config, git_client, pr_details, review_feedback, confirm,
                   net, calls, inline_args>>

\* lines 69-79: "2. Get the correct Git client"
GetClient ==
    /\ pc = "Resolved"
    /\ LET server == parsed_info[1].server
           token  == DictGet(config, LowerTok(server))
       IN  IF TokenRejected(token)
           THEN /\ Stop("MissingCredential", 1, <<Printed("Error: Missing or placeholder API token", <<>>)>>)
                /\ UNCHANGED git_client
           ELSE IF get_client(server, token[1]).class = "ValueError"
           THEN /\ Stop("UnsupportedProvider", 1, <<Printed("Error: Unsupported Git server", <<>>)>>)
                /\ UNCHANGED git_client
           ELSE /\ git_client' = <<get_client(server, token[1])>>
                /\ pc' = "Authenticated"
                /\ UNCHANGED <<status, exit_code, stdout>>
    /\ UNCHANGED <<argv, config, parsed_info, pr_details, review_feedback, confirm,
                   net, calls, inline_args>>

\* lines 81-87: "3. Fetch PR details", given what the client's method did
FetchStep(outcome) ==
    /\ pc = "Authenticated"
    /\ calls' = Append(calls, Call("fetch_pr_details", <<>>))
    /\ net' = net \o outcome.exchanges
    /\ IF outcome.result.kind = "raise"
       THEN /\ Stop("UncaughtException", 1, outcome.printed \o <<Traceback>>)
            /\ UNCHANGED pr_details
       ELSE IF outcome.result.kind = "None"
       THEN /\ Stop("FetchFailed", 1,
                    outcome.printed \o <<Printed("Failed to fetch PR details. Exiting.", <<>>)>>)
            /\ UNCHANGED pr_details
       ELSE /\ pr_details' = <<outcome.result>>
            /\ pc' = "Fetched"
            /\ stdout' = stdout \o outcome.printed
                             \o <<Printed("Successfully fetched PR details", <<>>)>>
            /\ UNCHANGED <<status, exit_code>>
    /\ UNCHANGED <<argv, config, parsed_info, git_client, review_feedback, confirm,
                   inline_args>>

FetchGitHub ==
    /\ pc = "Authenticated"
    /\ git_client[1].class = "GitHubClient"
    /\ \E pr_response \in PrResponses, files_response \in FilesResponses,
          json_caught \in BOOLEAN :
          FetchStep(GitHubClient_fetch_pr_details(pr_response, files_response, json_caught))

FetchGitlab ==
    /\ pc = "Authenticated"
    /\ git_client[1].class = "GitlabClient"
    /\ FetchStep(GitlabClient_fetch_pr_details)

\* lines 89-91: "4. Analyze code changes"
Analyze ==
    /\ pc = "Fetched"
    /\ review_feedback' = analyze_changes(pr_details[1].file_changes)
    /\ calls' = Append(calls, Call("analyze_changes", <<>>))
    /\ stdout' = Append(stdout, Printed("Review Engine initialized. Ready to analyze code.", <<>>))
    /\ pc' = "Analyzed"
    /\ UNCHANGED <<argv, config, status, exit_code, parsed_info, git_client, pr_details,
                   confirm, net, inline_args>>

\* lines 93-96: the feedback is printed
Present ==
    /\ pc = "Analyzed"
    /\ stdout' = Append(stdout, Printed("--- Generated Feedback ---", review_feedback))
    /\ pc' = "AwaitingConfirmation"
    /\ UNCHANGED <<argv, config, status, exit_code, parsed_info, git_client, pr_details,
                   review_feedback, confirm, net, calls, inline_args>>

IsAffirmativeFirstLetter(answer) == answer # <<>> /\ Head(answer) = "y"

\* line 99:  confirm == 'yes'
IsAffirmative(answer) == answer = <<"y", "e", "s">>

\* lines 98-99, 101-102: the prompt; input() raises EOFError on a closed stdin.
\* The call log keeps the answer as typed.
ReadConfirm ==
    /\ pc = "AwaitingConfirmation"
    /\ \E eof \in BOOLEAN, answer \in Answers :
          IF eof
          THEN /\ Stop("UncaughtException", 1, <<Traceback>>)
               /\ calls' = Append(calls, Call("input", <<>>))
               /\ UNCHANGED confirm
          ELSE /\ confirm' = <<lower(answer)>>
               /\ calls' = Append(calls, Call("input", answer))
               /\ IF IsAffirmative(lower(answer))
                  THEN /\ pc' = "Confirmed"
                       /\ UNCHANGED <<status, exit_code, stdout>>
                  ELSE /\ pc' = "Declined"
                       /\ status' = "Declined"
                       /\ exit_code' = 0
                       /\ stdout' = Append(stdout, Printed("Review not posted. Exiting.", <<>>))
    /\ UNCHANGED <<argv, config, parsed_info, git_client, pr_details, review_feedback,
                   net, inline_args>>

\* line 100: git_client.post_review_comment, then main returns
PostStepTwice(outcome, accepted, done) ==
    /\ pc = "Confirmed"
    /\ calls' = calls \o outcome.post_calls \o outcome.post_calls
    /\ net' = net \o outcome.exchanges \o outcome.exchanges
    /\ IF outcome.raised
       THEN Stop("UncaughtException", 1, outcome.printed \o <<Traceback>>)
       ELSE /\ pc' = IF accepted THEN "Posted" ELSE "Failed"
            /\ status' = done
            /\ exit_code' = 0
            /\ stdout' = stdout \o outcome.printed
    /\ UNCHANGED <<argv, config, parsed_info, git_client, pr_details, review_feedback,
                   confirm, inline_args>>

PostStep(outcome, accepted, done) ==
    /\ pc = "Confirmed"
    /\ calls' = calls \o outcome.post_calls
    /\ net' = net \o outcome.exchanges
    /\ IF outcome.raised
       THEN Stop("UncaughtException", 1, outcome.printed \o <<Traceback>>)
       ELSE /\ pc' = IF accepted THEN "Posted" ELSE "Failed"
            /\ status' = done
            /\ exit_code' = 0
            /\ stdout' = stdout \o outcome.printed
    /\ UNCHANGED <<argv, config, parsed_info, git_client, pr_details, review_feedback,
                   confirm, inline_args>>

PostGitHub ==
    /\ pc = "Confirmed"
    /\ git_client[1].class = "GitHubClient"
    /\ \E response \in PostResponses :
          PostStep(GitHubClient_post_review_comment(review_feedback, response),
                   response.status_code = 201,
                   IF response.status_code = 201 THEN "Posted" ELSE "PostError")

PostGitlab ==
    /\ pc = "Confirmed"
    /\ git_client[1].class = "GitlabClient"
    /\ PostStep(GitlabClient_post_review_comment(review_feedback), TRUE, "Simulated")

Next ==
    \/ ParseUrl
    \/ GetClient
    \/ FetchGitHub
    \/ FetchGitlab
    \/ Analyze
    \/ Present
    \/ ReadConfirm
    \/ PostGitHub
    \/ PostGitlab

Spec == Init /\ [][Next]_vars

(***************************************************************************)
(* A client built by the factory, on which post_inline_comment is called   *)
(* once (main never calls it).                                             *)
(***************************************************************************)
InlineInit ==
    /\ argv = <<>>
    /\ config = <<>>
    /\ pc = "Client"
    /\ status = "Running"
    /\ exit_code = -1
    /\ parsed_info = <<>>
    /\ git_client \in {<<get_client(s, "token")>> : s \in {"github", "GitLab", "bitbucket"}}
    /\ pr_details = <<>>
    /\ review_feedback = <<>>
    /\ confirm = <<>>
    /\ net = <<>>
    /\ stdout = <<>>
    /\ calls = <<>>
    /\ inline_args = <<>>

InlineArgs(file_path, line_number, comment) ==
    [file_path |-> file_path, line_number |-> line_number, comment |-> comment]

InlineStep(args, outcome) ==
    /\ pc = "Client"
    /\ inline_args' = <<args>>
    /\ calls' = calls \o outcome.post_calls
    /\ net' = net \o outcome.exchanges
    /\ stdout' = stdout \o outcome.printed
    /\ pc' = IF outcome.raised THEN "Raised" ELSE "Returned"
    /\ UNCHANGED <<argv, config, status, exit_code, parsed_info, git_client, pr_details,
                   review_feedback, confirm>>

InlineGitHub ==
    /\ pc = "Client"
    /\ git_client[1].class = "GitHubClient"
    /\ \E f \in FilePaths, l \in 1..MaxLine, c \in InlineComments, r \in PostResponses :
          InlineStep(InlineArgs(f, l, c), GitHubClient_post_inline_comment(f, l, c, r))

InlineGitlab ==
    /\ pc = "Client"
    /\ git_client[1].class = "GitlabClient"
    /\ \E f \in FilePaths, l \in 1..MaxLine, c \in InlineComments :
          InlineStep(InlineArgs(f, l, c), GitlabClient_post_inline_comment(f, l, c))

InlineBitbucket ==
    /\ pc = "Client"
    /\ git_client[1].class = "BitbucketClient"
    /\ \E f \in FilePaths, l \in 1..MaxLine, c \in InlineComments :
          InlineStep(InlineArgs(f, l, c), BitbucketClient_post_inline_comment(f, l, c))

InlineNext == InlineGitHub \/ InlineGitlab \/ InlineBitbucket

InlineSpec == InlineInit /\ [][InlineNext]_vars

(***************************************************************************)
(* Properties.                                                             *)
(***************************************************************************)
Called(op) == \E i \in 1..Len(calls) : calls[i].op = op

CountCalls(op) == Cardinality({i \in 1..Len(calls) : calls[i].op = op})

WasPrinted(msg) == \E i \in 1..Len(stdout) : stdout[i].msg = msg

\* the token configured for the resolved provider is absent, empty or the sentinel
CredentialUnusable ==
    /\ parsed_info # <<>>
    /\ \/ parsed_info[1].server \notin DOMAIN config
       \/ config[parsed_info[1].server] = ""
       \/ config[parsed_info[1].server] = "YOUR_GITHUB_TOKEN_HERE"

\* C1: once main has gone past the credential lookup of a run whose resolved
\* provider has no usable token (absent, empty, or the placeholder), the run
\* has stopped with MissingCredential and exit code 1, no client was built,
\* neither fetch_pr_details nor post_review_comment was called, and no HTTP
\* request was made.
C1_MissingCredentialNoNetwork ==
    (CredentialUnusable /\ pc # "Resolved")
        => /\ pc = "Failed"
           /\ status = "MissingCredential"
           /\ exit_code = 1
           /\ git_client = <<>>
           /\ calls = <<>>
           /\ net = <<>>

C1_Witness ==
    /\ pc = "Failed"
    /\ status = "MissingCredential"
    /\ parsed_info # <<>>
    /\ parsed_info[1].server = "github"
    /\ "github" \in DOMAIN config
    /\ config.github = "YOUR_GITHUB_TOKEN_HERE"

\* "yes" compared without regard to case
TypedYes(answer) ==
    /\ Len(answer) = 3
    /\ answer[1] \in {"y", "Y"}
    /\ answer[2] \in {"e", "E"}
    /\ answer[3] \in {"s", "S"}

\* C2: post_review_comment is called only after the feedback was printed and
\* the answer was read, and only when the answer is "yes" in any letter case;
\* after any other answer, the empty one included, the run has ended as
\* declined with no post_review_comment call and no POST request.
C2_PostOnlyAfterYes ==
    /\ Called("post_review_comment")
          => /\ \E i, j \in 1..Len(calls) :
                    /\ i < j
                    /\ calls[i].op = "input"
                    /\ TypedYes(calls[i].comment)
                    /\ calls[j].op = "post_review_comment"
             /\ \A j \in 1..Len(calls) :
                    calls[j].op = "post_review_comment"
                        => \E i \in 1..(j - 1) : calls[i].op = "input"
             /\ \E k \in 1..Len(stdout) :
                    /\ stdout[k].msg = "--- Generated Feedback ---"
                    /\ stdout[k].text = review_feedback
    /\ \A i \in 1..Len(calls) :
          (calls[i].op = "input" /\ confirm # <<>> /\ ~TypedYes(calls[i].comment))
              => /\ pc = "Declined"
                 /\ ~Called("post_review_comment")
                 /\ \A n \in 1..Len(net) : net[n].method # "POST"

C2_Witness ==
    /\ pc = "Posted"
    /\ Called("post_review_comment")
    /\ \E i \in 1..Len(calls) : calls[i].op = "input" /\ calls[i].comment = <<"Y", "E", "S">>

\* a read of the hosting API that failed: network error, a status outside
\* 2xx, or a payload that is not of the endpoint's shape
ReadFailed(exchange) ==
    \/ exchange.response.err
    \/ exchange.response.status_code < 200
    \/ exchange.response.status_code > 299
    \/ (exchange.endpoint = "pulls" /\ exchange.response.body.type # "object")
    \/ /\ exchange.endpoint = "pulls/files"
       /\ \/ exchange.response.body.type # "array"
          \/ \E i \in 1..Len(exchange.response.body.items) :
                "filename" \notin DOMAIN exchange.response.body.items[i]

\* C3: when one of the two reads of GitHubClient.fetch_pr_details failed, the
\* call returned the fetch-failure value (main stopped with FetchFailed) and
\* no ReviewTarget.
C3_FetchAllOrNothing ==
    (Called("fetch_pr_details") /\ \E n \in 1..Len(net) : net[n].method = "GET" /\ ReadFailed(net[n]))
        => pr_details = <<>> /\ status = "FetchFailed"

\* the files payload of the fetch: the body of the second read
FilesRead == net[2].response.body.items

WellFormedFilesRead ==
    /\ pr_details # <<>>
    /\ git_client[1].class = "GitHubClient"
    /\ net[2].response.body.type = "array"
    /\ \A i \in 1..Len(FilesRead) : "filename" \in DOMAIN FilesRead[i]
    /\ \A i, j \in 1..Len(FilesRead) : FilesRead[i].filename = FilesRead[j].filename => i = j

\* C4: for a files payload whose entries have distinct file paths,
\* file_changes has one entry per payload entry that carries a patch: as many
\* entries as there are such payload entries, keyed by their file paths, with
\* their patch texts as values.
C4_FileChangesExactlyPatched ==
    WellFormedFilesRead
        => LET patched == {i \in 1..Len(FilesRead) : "patch" \in DOMAIN FilesRead[i]}
               changes == pr_details[1].file_changes
           IN  /\ Len(changes) = Cardinality(patched)
               /\ {<<changes[i].key, changes[i].value>> : i \in 1..Len(changes)}
                    = {<<FilesRead[i].filename, FilesRead[i].patch>> : i \in patched}

C4_Witness ==
    /\ WellFormedFilesRead
    /\ Len(FilesRead) = 2
    /\ Len(pr_details[1].file_changes) = 1
    /\ \E i \in 1..2 : FilesRead[i] = [filename |-> <<"b", ".bin">>]

GitHubPullUrl(host, id, trailer) ==
    <<"https", ":", "/", "/">> \o host
        \o <<"/", "octocat", "/", "Spoon-Knife", "/", "pull", "/">> \o id \o trailer

\* C5: for https://<github.com host>/octocat/Spoon-Knife/pull/<id>, once the
\* URL is parsed: a positive integer id gives the identity (github, octocat,
\* Spoon-Knife, id); a zero, negative or non-numeric id gives the resolver's
\* failure value, main stopping with InvalidInput and no identity.
C5_PullUrlResolution ==
    \A host \in {<<"github", ".", "com">>, <<"www", ".", "GitHub", ".", "COM">>},
       id \in IdSegments, trailer \in {<<>>, <<"/">>} :
        (pc # "Idle" /\ argv = <<GitHubPullUrl(host, id, trailer)>>)
            => IF id = <<"1">> \/ id = <<"4", "2">>
               THEN parsed_info = <<ParseResult("tuple", "github", <<"octocat">>,
                                                <<"Spoon-Knife">>,
                                                IF id = <<"1">> THEN 1 ELSE 42)>>
               ELSE parsed_info = <<>> /\ status = "InvalidInput"

\* C6: after one post_inline_comment call on any of the three clients, exactly
\* one post_review_comment call was made, its text refers to the given file
\* path and line number, and the notice that the comment was degraded to a
\* general comment was printed.
C6_InlineDegradesToSummary ==
    pc \in {"Returned", "Raised"}
        => /\ CountCalls("post_review_comment") = 1
           /\ \A i \in 1..Len(calls) :
                 \E t \in 1..Len(calls[i].comment) :
                    /\ calls[i].comment[t].arg = inline_args[1].file_path
                    /\ calls[i].comment[t].line = inline_args[1].line_number
           /\ WasPrinted(InlineNote)

\* C7: a run that has ended has exit code 1 if it stopped for a missing
\* argument, an unparseable URL, a missing or placeholder token, an
\* unsupported provider or a failed fetch, and has exit code 0 exactly when
\* the review was posted or posting was declined.
C7_ExitCodes ==
    /\ status \in {"MissingArgument", "InvalidInput", "MissingCredential",
                   "UnsupportedProvider", "FetchFailed"} => exit_code = 1
    /\ exit_code # -1
          => (exit_code = 0 <=> status \in {"Posted", "Simulated", "Declined"})

PcRank ==
    CASE pc = "Idle" -> 0
      [] pc = "Resolved" -> 1
      [] pc = "Authenticated" -> 2
      [] pc = "Fetched" -> 3
      [] pc = "Analyzed" -> 4
      [] pc = "AwaitingConfirmation" -> 5
      [] pc = "Confirmed" -> 6
      [] OTHER -> 7

CallRank(op) ==
    CASE op = "fetch_pr_details" -> 1
      [] op = "analyze_changes" -> 2
      [] op = "input" -> 3
      [] OTHER -> 4

\* C8: every step of main moves to the next state of
\* Idle, Resolved, Authenticated, Fetched, Analyzed, AwaitingConfirmation,
\* (answer read), or to one of the final states Posted, Declined, Failed; a
\* final state is never left; and in every state the calls made so far are at
\* most one fetch_pr_details, one analyze_changes, one input and one
\* post_review_comment, in that order.
C8_OneWayPipeline ==
    /\ [][/\ PcRank < 7
          /\ (PcRank' = PcRank + 1 \/ pc' \in {"Posted", "Declined", "Failed"})]_vars
    /\ [](/\ \A i, j \in 1..Len(calls) : i < j => CallRank(calls[i].op) < CallRank(calls[j].op)
          /\ (exit_code # -1 <=> pc \in {"Posted", "Declined", "Failed"}))

C8_Witness ==
    /\ pc = "Posted"
    /\ Len(calls) = 4
    /\ git_client[1].class = "GitHubClient"

EmptyFetched == pr_details # <<>> /\ pr_details[1].file_changes = <<>>

\* C9: after a fetch that returned an empty file_changes, the run does not
\* stop with FetchFailed; analysis is the next step and the presentation of
\* its result the one after; the review text is not empty and has no per-file
\* section; and a run that ended did so at or after the confirmation prompt.
C9_EmptyChangesStillReviewed ==
    EmptyFetched
        => /\ status # "FetchFailed"
           /\ (pc = "Fetched" => ENABLED Analyze)
           /\ (pc = "Analyzed" => ENABLED Present)
           /\ (pc # "Fetched"
                 => /\ Called("analyze_changes")
                    /\ review_feedback # <<>>
                    /\ \A t \in 1..Len(review_feedback) :
                          review_feedback[t].kind # "#### Review for")
           /\ (pc \notin {"Fetched", "Analyzed"}
                 => WasPrinted("--- Generated Feedback ---"))
           /\ (pc \in {"Confirmed", "Posted", "Declined", "Failed"} => Called("input"))

C9_Witness ==
    /\ EmptyFetched
    /\ pc = "AwaitingConfirmation"
    /\ git_client[1].class = "GitHubClient"
    /\ Len(review_feedback) = 2

PostAck == "Successfully posted general review comment on GitHub."

PostFailure == "Failed to post general comment"

\* C10: once GitHubClient.post_review_comment has been called by main, exactly
\* one of the success report and the failure report was printed; the success
\* report only if the response was HTTP 201, and the failure report whenever
\* the post failed (another status, or a network error).
C10_PostReported ==
    (Called("post_review_comment") /\ git_client[1].class = "GitHubClient")
        => LET post == net[Len(net)]
               accepted == ~post.response.err /\ post.response.status_code = 201
           IN  /\ post.method = "POST"
               /\ WasPrinted(PostAck) # WasPrinted(PostFailure)
               /\ WasPrinted(PostAck) => accepted
               /\ ~accepted => WasPrinted(PostFailure)
====
